---- MODULE Spec2Model ----
(***************************************************************************)
(* The browser client of the RAG system (src/ui/main.js, class RAGSystem)  *)
(* together with the two endpoints it talks to, POST /ingest and           *)
(* POST /query.  The client is translated from main.js.  The server        *)
(* (main_fastapi.py, utils.py) is not part of src/; it is modelled from    *)
(* spec.md sections 4.3 to 4.6 and the README.                             *)
(*                                                                         *)
(* Conventions                                                             *)
(*  - a File is [name, type, size]; name is <<stem, suffix>> so that       *)
(*    name.endsWith('.txt') is a test of the suffix;                       *)
(*  - similarities and thresholds are in hundredths (0.6 is 60);           *)
(*  - a text is a sequence of tokens; some tokens are sensitive;           *)
(*  - new Date().toISOString() of a QueryRecord is the number of the       *)
(*    query in completion order; a document's uploadDate (only displayed)  *)
(*    is left out;                                                         *)
(*  - localStorage.setItem is taken to succeed, and one RAGSystem          *)
(*    instance at a time uses the store;                                   *)
(*  - the progress of a setInterval timer is in whole percent; the timers  *)
(*    that outlived their upload are kept as the set of their progress     *)
(*    values (two of them with the same value write the same percentages). *)
(***************************************************************************)
EXTENDS Integers, Sequences, FiniteSets, TLC

VARIABLES
    documents,      \* this.documents
    queries,        \* this.queries
    isQuerying,     \* this.isQuerying
    stored,         \* localStorage['rag-system-data']
    notification,   \* the notification shown last (showNotification)
    documentsList,  \* #documents-list: the names of the rendered cards
    sourceFilter,   \* #source-filter: the option values after 'All Sources'
    querySources,   \* #query-sources: what displaySources rendered
    typing,         \* Typed instances still typing; each holds its sources
    typedDefined,   \* typeof Typed !== 'undefined' on this page
    uploads,        \* processFiles calls in flight
    uploadProgress, \* #upload-progress: the panel and the percentage it shows
    intervals,      \* setInterval timers that outlived their processFiles call
    queryReqs,      \* handleQuery calls in flight
    index,          \* the server's VectorIndex: a set of chunks
    llmContext,     \* the context handed to the LLM capability last
    nQueries        \* number of handleQuerySuccess calls so far (the clock)

vars == <<documents, queries, isQuerying, stored, notification, documentsList,
          sourceFilter, querySources, typing, typedDefined, uploads, queryReqs,
          index, llmContext, nQueries, uploadProgress, intervals>>

progressVars == <<uploadProgress, intervals>>
clientVars == <<documents, queries, isQuerying, stored, notification,
                documentsList, sourceFilter, querySources, typing, typedDefined,
                progressVars>>
serverVars == <<index, llmContext>>

----------------------------------------------------------------------------
(* Bounds of the model *)

MaxFiles == 2        \* files in one selection (SpecIngest, SpecFilter)
MaxUploads == 2      \* processFiles calls in flight at once (SpecIngest)
MaxSelection == 1    \* files in one selection (Spec)
MaxPending == 1      \* processFiles calls in flight at once (Spec, SpecFilter)
MaxQueries == 1      \* successful queries in the interleaving specifications
MaxHistory == 11     \* successful queries in the history specification

(* Program constants *)

DefaultK == 3            \* main.js:416
DefaultThreshold == 60   \* main.js:417  (0.6)
HistoryLimit == 10       \* main.js:477
ProgressStop == 90       \* main.js:226

----------------------------------------------------------------------------
(* Files the user can select *)

fA == [name |-> <<"a", ".txt">>, type |-> "text/plain", size |-> 1]
fB == [name |-> <<"b", ".pdf">>, type |-> "application/pdf", size |-> 2]
fC == [name |-> <<"c", ".txt">>, type |-> "", size |-> 3]
fN == [name |-> <<"n", ".md">>, type |-> "text/plain", size |-> 4]
fD == [name |-> <<"d", ".png">>, type |-> "image/png", size |-> 5]
fE == [name |-> <<"e", ".TXT">>, type |-> "", size |-> 6]

AllFiles == {fA, fB, fC, fN, fD, fE}

\* every sequence over S of length 1..n (a FileList; the same file may occur twice)
SeqsUpTo(S, n) == UNION {[1..m -> S] : m \in 1..n}

Range(s) == {s[i] : i \in 1..Len(s)}

----------------------------------------------------------------------------
(* Pure functions of main.js *)

\* String.prototype.endsWith on a name <<stem, suffix>>
endsWith(name, suffix) == name[2] = suffix

\* processFiles without its filter
isValidFileAny(file) == TRUE

\* the filter of processFiles, main.js:174-178
isValidFile(file) ==
    \/ file.type = "application/pdf"
    \/ endsWith(file.name, ".txt")
    \/ file.type = "text/plain"

validFilesOf(files) == SelectSeq(files, isValidFile)

\* this.documents.find(doc => doc.name === file.name), main.js:276
findDocument(docs, name) == \E i \in 1..Len(docs) : docs[i].name = name

\* addDocuments without the find of main.js:276
RECURSIVE addDocumentsNoFind(_, _, _, _)
addDocumentsNoFind(docs, files, inserted, i) ==
    IF i > Len(files) THEN docs
    ELSE addDocumentsNoFind(Append(docs, [name |-> files[i].name,
                                          size |-> files[i].size,
                                          type |-> files[i].type,
                                          chunks |-> inserted \div Len(files)]),
                            files, inserted, i + 1)

\* the forEach of handleUploadSuccess, main.js:275-285, from file i on
RECURSIVE addDocuments(_, _, _, _)
addDocuments(docs, files, inserted, i) ==
    IF i > Len(files) THEN docs
    ELSE LET file == files[i]
             next == IF ~findDocument(docs, file.name)
                     THEN Append(docs, [name |-> file.name,
                                        size |-> file.size,
                                        type |-> file.type,
                                        chunks |-> inserted \div Len(files)])
                     ELSE docs
         IN addDocuments(next, files, inserted, i + 1)

\* getTotalChunks, main.js:611-613
RECURSIVE sumChunks(_, _)
sumChunks(docs, i) ==
    IF i > Len(docs) THEN 0 ELSE docs[i].chunks + sumChunks(docs, i + 1)

getTotalChunks(docs) == sumChunks(docs, 1)

docNames(docs) == [i \in 1..Len(docs) |-> docs[i].name]

\* updateSourceFilter, main.js:355-368: the options after 'All Sources'
updateSourceFilter(docs) == docNames(docs)

\* updateDocumentsList, main.js:293-333: <<rendered cards, filter options>>.
\* With no documents it returns before updateSourceFilter is called.
updateDocumentsList(docs, options) ==
    IF Len(docs) = 0 THEN <<docNames(docs), options>>
    ELSE <<docNames(docs), updateSourceFilter(docs)>>

\* JSON.stringify(data) / JSON.parse(stored), main.js:649 and 664
toJSON(docs, qs) == [present |-> TRUE, documents |-> docs, queries |-> qs]
NoItem == [present |-> FALSE, documents |-> <<>>, queries |-> <<>>]

\* saveStoredData that writes the documents alone
saveStoredDataDocuments(docs, qs) == toJSON(docs, <<>>)

\* saveStoredData, main.js:658-668
saveStoredData(docs, qs) == toJSON(docs, qs)

\* loadStoredData, main.js:645-656: <<documents, queries>> of a new instance
loadStoredData(item) ==
    IF item.present THEN <<item.documents, item.queries>> ELSE <<<<>>, <<>>>>

\* showNotification(message, type), main.js:620-643.  A message is its fixed
\* text and the values interpolated into it: a chunk count, a file count, a
\* document name.
NoName == <<>>
NoNotification ==
    [type |-> "none", message |-> "none", chunks |-> 0, files |-> 0, name |-> NoName]
showNotification(message, chunks, files, name, type) ==
    [type |-> type, message |-> message, chunks |-> chunks, files |-> files,
     name |-> name]

----------------------------------------------------------------------------
(* The server: POST /ingest (spec.md 4.1, 4.2, 4.4) *)

\* the text windows the Chunker cuts from a file, in order
chunkTexts(file) ==
    CASE file.name[1] = "a" -> << <<"mail", "a@b.com">>, <<"beta">> >>
      [] file.name[1] = "b" -> << <<"call", "555-123-4567">> >>
      [] OTHER -> << <<"gamma">> >>

\* Fingerprinter: the id is a hash of (source, sequence_index, text)
fingerprint(source, seq, text) == <<source, seq, text>>

chunksOf(file) ==
    {[id |-> fingerprint(file.name, i, chunkTexts(file)[i]),
      source |-> file.name,
      sequence_index |-> i,
      text |-> chunkTexts(file)[i]] : i \in 1..Len(chunkTexts(file))}

\* VectorIndex.upsert: a chunk whose id is stored is overwritten, not added
upsert(idx, chunks) == idx \cup chunks

RECURSIVE countChunks(_, _, _)
countChunks(files, good, i) ==
    IF i > Len(files) THEN 0
    ELSE (IF i \in good THEN Len(chunkTexts(files[i])) ELSE 0)
         + countChunks(files, good, i + 1)

----------------------------------------------------------------------------
Init ==
    /\ documents = <<>>
    /\ queries = <<>>
    /\ isQuerying = FALSE
    /\ stored = NoItem
    /\ notification = NoNotification
    /\ documentsList = <<>>
    /\ sourceFilter = <<>>
    /\ querySources = [shown |-> FALSE, cards |-> <<>>]
    /\ typing = <<>>
    /\ typedDefined \in BOOLEAN
    /\ uploads = <<>>
    /\ uploadProgress = [hidden |-> TRUE, percent |-> 0]
    /\ intervals = {}
    /\ queryReqs = <<>>
    /\ index = {}
    /\ llmContext = <<>>
    /\ nQueries = 0

----------------------------------------------------------------------------
(* Ingestion: processFiles, main.js:173-208, and its server *)

RemoveAt(s, i) == SubSeq(s, 1, i - 1) \o SubSeq(s, i + 1, Len(s))

supportedMedia(file) == file.type \in {"text/plain", "application/pdf"}

\* the panel #upload-progress: showUploadProgress (main.js:211-212),
\* updateProgress (main.js:234-240) and hideUploadProgress (main.js:253-265;
\* the panel is hidden when the animation of 300 ms completes, taken as at once)
showUploadProgress(panel) == [panel EXCEPT !.hidden = FALSE]
updateProgress(panel, percent) == [panel EXCEPT !.percent = percent]
hideUploadProgress(panel) == [panel EXCEPT !.hidden = TRUE]

\* the timer of showUploadProgress, if still set, when its processFiles call
\* and the callbacks of that call are over: nothing clears it then
leftBy(u) == IF u.interval THEN {u.progress} ELSE {}

\* processFiles up to the fetch, main.js:173-196
processFiles(files) ==
    LET validFiles == validFilesOf(files) IN
    IF Len(validFiles) = 0
    THEN /\ notification' = showNotification("Please select PDF or text files only.", 0, 0, NoName, "error")
         /\ UNCHANGED <<documents, queries, isQuerying, stored, documentsList,
                        sourceFilter, querySources, typing, typedDefined,
                        uploads, queryReqs, index, llmContext, nQueries, progressVars>>
    ELSE /\ uploadProgress' = showUploadProgress(uploadProgress)
         /\ uploads' = Append(uploads, [files |-> validFiles, stage |-> "fetch",
                                        ok |-> FALSE, inserted |-> 0, good |-> {},
                                        progress |-> 0, interval |-> TRUE])
         /\ UNCHANGED <<documents, queries, isQuerying, stored, notification,
                        documentsList, sourceFilter, querySources, typing,
                        typedDefined, intervals, queryReqs, serverVars, nQueries>>

\* POST /ingest on the server (spec.md 4.4 and 6): a request with an unsupported
\* media type is rejected before any processing; otherwise every document is
\* ingested on its own, the ones in good succeed, and the response is an error
\* as soon as one document failed.
ingest(i, good) ==
    LET u == uploads[i]
        accepted == \A j \in 1..Len(u.files) : supportedMedia(u.files[j])
        done == IF accepted THEN good ELSE {}
    IN /\ u.stage = "fetch"
       /\ index' = upsert(index, UNION {chunksOf(u.files[j]) : j \in done})
       /\ uploads' = [uploads EXCEPT ![i] =
               [u EXCEPT !.stage = "response",
                         !.ok = (done = 1..Len(u.files)),
                         !.inserted = countChunks(u.files, done, 1),
                         !.good = done]]
       /\ UNCHANGED <<clientVars, queryReqs, llmContext, nQueries>>

\* main.js:198-203 with response.ok, and handleUploadSuccess up to its
\* setTimeout, main.js:267-270
handleUploadSuccess(i) ==
    /\ uploads[i].stage = "response"
    /\ uploads[i].ok
    /\ uploadProgress' = updateProgress(uploadProgress, 100)
    /\ uploads' = [uploads EXCEPT ![i].stage = "timer"]
    /\ UNCHANGED <<documents, queries, isQuerying, stored, notification,
                   documentsList, sourceFilter, querySources, typing,
                   typedDefined, intervals, queryReqs, serverVars, nQueries>>

\* the catch of processFiles that lists the files all the same
processFilesCatchListing(i) ==
    LET docs == addDocuments(documents, uploads[i].files, 0, 1) IN
    /\ uploads[i].stage \in {"fetch", "response"}
    /\ notification' = showNotification("Upload failed", 0, 0, NoName, "error")
    /\ documents' = docs
    /\ stored' = saveStoredData(docs, queries)
    /\ uploadProgress' = hideUploadProgress(uploadProgress)
    /\ intervals' = intervals \cup leftBy(uploads[i])
    /\ uploads' = RemoveAt(uploads, i)
    /\ UNCHANGED <<queries, isQuerying, documentsList, sourceFilter,
                   querySources, typing, typedDefined, queryReqs, index,
                   llmContext, nQueries>>

\* main.js:198-200 and 204-207: the fetch rejected, the response was not OK,
\* or its body did not parse
processFilesCatch(i) ==
    /\ uploads[i].stage \in {"fetch", "response"}
    /\ notification' = showNotification("Upload failed", 0, 0, NoName, "error")
    /\ uploadProgress' = hideUploadProgress(uploadProgress)
    /\ intervals' = intervals \cup leftBy(uploads[i])
    /\ uploads' = RemoveAt(uploads, i)
    /\ UNCHANGED <<documents, queries, isQuerying, stored, documentsList,
                   sourceFilter, querySources, typing, typedDefined,
                   queryReqs, index, llmContext, nQueries>>

\* the setTimeout callback of handleUploadSuccess, main.js:270-290
uploadTimer(i) ==
    LET u == uploads[i]
        docs == addDocuments(documents, u.files, u.inserted, 1)
        dom == updateDocumentsList(docs, sourceFilter)
    IN /\ u.stage = "timer"
       /\ uploadProgress' = hideUploadProgress(uploadProgress)
       /\ intervals' = intervals \cup leftBy(u)
       /\ notification' = showNotification("Successfully processed", u.inserted, Len(u.files),
                                        NoName, "success")
       /\ documents' = docs
       /\ documentsList' = dom[1]
       /\ sourceFilter' = dom[2]
       /\ stored' = saveStoredData(docs, queries)
       /\ uploads' = RemoveAt(uploads, i)
       /\ UNCHANGED <<queries, isQuerying, querySources, typing, typedDefined,
                      queryReqs, index, llmContext, nQueries>>

\* this.documents.filter(doc => doc.name !== docName), main.js:591
withoutDocument(docs, docName) == SelectSeq(docs, LAMBDA doc : doc.name # docName)

\* deleteDocument, main.js:589-597, called from a rendered Delete button
deleteDocument(docName, confirmed) ==
    /\ docName \in Range(documentsList)
    /\ IF confirmed
       THEN LET docs == withoutDocument(documents, docName)
                dom == updateDocumentsList(docs, sourceFilter)
            IN /\ documents' = docs
               /\ documentsList' = dom[1]
               /\ sourceFilter' = dom[2]
               /\ stored' = saveStoredData(docs, queries)
               /\ notification' = showNotification("Document deleted", 0, 0, docName,
                                                "success")
               /\ UNCHANGED <<queries, isQuerying, querySources, typing,
                              typedDefined, uploads, queryReqs, index,
                              llmContext, nQueries, progressVars>>
       ELSE UNCHANGED vars

\* a page load: constructor and init, main.js:3-18.  The requests, timers and
\* DOM of the page before are gone; the store and the server are not.
construct ==
    LET data == loadStoredData(stored) IN
    /\ documents' = data[1]
    /\ queries' = data[2]
    /\ isQuerying' = FALSE
    /\ notification' = NoNotification
    /\ documentsList' = <<>>
    /\ sourceFilter' = <<>>
    /\ querySources' = [shown |-> FALSE, cards |-> <<>>]
    /\ typing' = <<>>
    /\ uploads' = <<>>
    /\ uploadProgress' = [hidden |-> TRUE, percent |-> 0]
    /\ intervals' = {}
    /\ queryReqs' = <<>>
    /\ UNCHANGED <<stored, typedDefined, index, llmContext, nQueries>>

\* the callback of the setInterval of showUploadProgress, main.js:224-231,
\* for a timer whose progress is progress and whose Math.random() * 15 is inc
tick(progress, inc, panel) ==
    LET next == progress + inc IN
    IF next >= ProgressStop
    THEN [progress |-> next, interval |-> FALSE, panel |-> panel]
    ELSE [progress |-> next, interval |-> TRUE,
          panel |-> updateProgress(panel, next)]

\* a tick of the timer of a processFiles call that is not over
intervalOfUpload(i, inc) ==
    LET t == tick(uploads[i].progress, inc, uploadProgress) IN
    /\ uploads[i].interval
    /\ uploads' = [uploads EXCEPT ![i].progress = t.progress,
                                  ![i].interval = t.interval]
    /\ uploadProgress' = t.panel
    /\ UNCHANGED <<documents, queries, isQuerying, stored, notification,
                   documentsList, sourceFilter, querySources, typing,
                   typedDefined, intervals, queryReqs, serverVars, nQueries>>

\* a tick of a timer that outlived its processFiles call
intervalLeft(progress, inc) ==
    LET t == tick(progress, inc, uploadProgress) IN
    /\ progress \in intervals
    /\ intervals' = (intervals \ {progress})
                       \cup (IF t.interval THEN {t.progress} ELSE {})
    /\ uploadProgress' = t.panel
    /\ UNCHANGED <<documents, queries, isQuerying, stored, notification,
                   documentsList, sourceFilter, querySources, typing,
                   typedDefined, uploads, queryReqs, serverVars, nQueries>>

----------------------------------------------------------------------------
(* Querying: the server side of POST /query (spec.md 4.3, 4.5, 4.6) *)

Null == <<"null">>

isEmail(token) == token \in {"a@b.com"}
isPhone(token) == token \in {"555-123-4567"}

\* Anonymizer, pattern stage: every sensitive span becomes its placeholder
redact(token) ==
    IF isEmail(token) THEN "[EMAIL]"
    ELSE IF isPhone(token) THEN "[PHONE]"
    ELSE token

anonymize(text) == [i \in 1..Len(text) |-> redact(text[i])]

\* the index's similarity metric for a question and a chunk, in hundredths
similarity(question, chunk) ==
    CASE chunk.source[1] = "a" /\ chunk.sequence_index = 1 -> 90
      [] chunk.source[1] = "a" -> 50
      [] OTHER -> 70

stemRank(name) ==
    CASE name[1] = "a" -> 1 [] name[1] = "b" -> 2 [] name[1] = "c" -> 3 [] OTHER -> 4

\* the ranking order: descending similarity, then ascending sequence_index,
\* then chunk_id
before(question, c, d) ==
    LET sc == similarity(question, c)
        sd == similarity(question, d)
    IN \/ sc > sd
       \/ sc = sd /\ c.sequence_index < d.sequence_index
       \/ sc = sd /\ c.sequence_index = d.sequence_index
                  /\ stemRank(c.source) < stemRank(d.source)

RECURSIVE ranked(_, _)
ranked(question, chunks) ==
    IF chunks = {} THEN <<>>
    ELSE LET first == CHOOSE c \in chunks :
                          \A d \in chunks \ {c} : before(question, c, d)
         IN <<first>> \o ranked(question, chunks \ {first})

matches(filter, chunk) == filter.source = Null \/ chunk.source = filter.source

\* Retriever.retrieve: the k nearest chunks that pass the filter, without the
\* ones below the threshold
retrieve(idx, question, k, score_threshold, filter) ==
    LET nearest == ranked(question, {c \in idx : matches(filter, c)})
        topK == SubSeq(nearest, 1, IF Len(nearest) < k THEN Len(nearest) ELSE k)
    IN SelectSeq(topK, LAMBDA c : similarity(question, c) >= score_threshold)

\* the context block AnswerComposer hands to the LLM capability
contextOf(question, retrieved) ==
    [i \in 1..Len(retrieved) |->
        [source |-> retrieved[i].source, text |-> anonymize(retrieved[i].text)]]

\* the LLM capability: its answer is a function of the prompt
generate(question, context) ==
    [grounded |-> context # <<>>, question |-> question, context |-> context]

\* the RetrievedSource list of the response
sourcesOf(question, retrieved) ==
    [i \in 1..Len(retrieved) |->
        [chunk_id |-> retrieved[i].id,
         source |-> retrieved[i].source,
         similarity |-> similarity(question, retrieved[i]),
         snippet |-> retrieved[i].text]]

\* POST /query on the server
query(i) ==
    LET r == queryReqs[i]
        retrieved == retrieve(index, r.body.question, r.body.k,
                              r.body.score_threshold, r.body.filter)
        context == contextOf(r.body.question, retrieved)
    IN /\ r.stage = "fetch"
       /\ llmContext' = context
       /\ queryReqs' = [queryReqs EXCEPT ![i] =
               [r EXCEPT !.stage = "response",
                         !.answer = generate(r.body.question, context),
                         !.sources = sourcesOf(r.body.question, retrieved)]]
       /\ UNCHANGED <<clientVars, uploads, index, nQueries>>

----------------------------------------------------------------------------
(* Querying: the client, main.js:400-567 *)

NaN == [nan |-> TRUE, val |-> 0]
Num(n) == [nan |-> FALSE, val |-> n]

\* parseInt of the value of #results-k
parseInt(value) ==
    CASE value = "0" -> Num(0)
      [] value = "1" -> Num(1)
      [] value = "2" -> Num(2)
      [] value = "5" -> Num(5)
      [] OTHER -> NaN

\* parseFloat of the value of #threshold, in hundredths
parseFloat(value) ==
    CASE value = "0" -> Num(0)
      [] value = "0.5" -> Num(50)
      [] value = "0.8" -> Num(80)
      [] value = "1" -> Num(100)
      [] OTHER -> NaN

\* x || d for a number x: NaN and 0 are falsy
orDefault(x, d) == IF x.nan \/ x.val = 0 THEN d ELSE x.val

\* value || null for the value of #source-filter ('' is <<>>)
orNull(value) == IF value = <<>> THEN Null ELSE value

\* the input taken as it is, without trim()
trimNothing(value) == value

\* String.prototype.trim
trim(value) ==
    CASE value \in {"", " ", "  "} -> ""
      [] value = " q1 " -> "q1"
      [] OTHER -> value

\* queryData that never reads #results-k
queryDataDefaultK(question, kValue, thresholdValue, sourceValue) ==
    [question |-> question,
     k |-> DefaultK,
     score_threshold |-> orDefault(parseFloat(thresholdValue), DefaultThreshold),
     filter |-> [source |-> orNull(sourceValue)]]

\* the queryData of handleQuery, main.js:414-421
queryData(question, kValue, thresholdValue, sourceValue) ==
    [question |-> question,
     k |-> orDefault(parseInt(kValue), DefaultK),
     score_threshold |-> orDefault(parseFloat(thresholdValue), DefaultThreshold),
     filter |-> [source |-> orNull(sourceValue)]]

\* the values the source filter can hold: 'All Sources' or one of its options
sourceValues == {<<>>} \cup Range(sourceFilter)

NoAnswer == [grounded |-> FALSE, question |-> "", context |-> <<>>]

\* handleQuery without the guard of main.js:401
handleQueryUnguarded(input, kValue, thresholdValue, sourceValue) ==
    IF trim(input) = ""
    THEN /\ notification' = showNotification("Please enter a question.", 0, 0, NoName, "error")
         /\ UNCHANGED <<documents, queries, isQuerying, stored, documentsList,
                        sourceFilter, querySources, typing, typedDefined,
                        uploads, queryReqs, index, llmContext, nQueries, progressVars>>
    ELSE /\ isQuerying' = TRUE
         /\ queryReqs' = Append(queryReqs,
                [question |-> trim(input),
                 body |-> queryData(trim(input), kValue, thresholdValue, sourceValue),
                 entered |-> [k |-> kValue, threshold |-> thresholdValue],
                 stage |-> "fetch",
                 answer |-> NoAnswer,
                 sources |-> <<>>])
         /\ UNCHANGED <<documents, queries, stored, notification, documentsList,
                        sourceFilter, querySources, typing, typedDefined,
                        uploads, index, llmContext, nQueries, progressVars>>

\* handleQuery up to the fetch, main.js:400-430
handleQuery(input, kValue, thresholdValue, sourceValue) ==
    IF isQuerying THEN UNCHANGED vars
    ELSE IF trim(input) = ""
    THEN /\ notification' = showNotification("Please enter a question.", 0, 0, NoName, "error")
         /\ UNCHANGED <<documents, queries, isQuerying, stored, documentsList,
                        sourceFilter, querySources, typing, typedDefined,
                        uploads, queryReqs, index, llmContext, nQueries, progressVars>>
    ELSE /\ isQuerying' = TRUE
         /\ queryReqs' = Append(queryReqs,
                [question |-> trim(input),
                 body |-> queryData(trim(input), kValue, thresholdValue, sourceValue),
                 entered |-> [k |-> kValue, threshold |-> thresholdValue],
                 stage |-> "fetch",
                 answer |-> NoAnswer,
                 sources |-> <<>>])
         /\ UNCHANGED <<documents, queries, stored, notification, documentsList,
                        sourceFilter, querySources, typing, typedDefined,
                        uploads, index, llmContext, nQueries, progressVars>>

\* addQuery without the slice of main.js:477-479
addQueryNoSlice(qs, record) == <<record>> \o qs

\* addQuery that records only the queries that found a source
addQueryUnlessEmpty(qs, record) ==
    IF record.sources = <<>> THEN qs ELSE addQueryNoSlice(qs, record)

\* this.queries.unshift(record) and the slice, main.js:469-479
addQuery(qs, record) ==
    LET all == <<record>> \o qs IN
    IF Len(all) > HistoryLimit THEN SubSeq(all, 1, HistoryLimit) ELSE all

\* displaySources that renders the redacted snippet
displaySourcesRedacted(sources) ==
    [shown |-> TRUE,
     cards |-> [i \in 1..Len(sources) |->
                   [source |-> sources[i].source,
                    similarity |-> sources[i].similarity,
                    snippet |-> anonymize(sources[i].snippet)]]]

\* displaySources, main.js:528-567
displaySources(sources) ==
    [shown |-> TRUE,
     cards |-> [i \in 1..Len(sources) |->
                   [source |-> sources[i].source,
                    similarity |-> sources[i].similarity,
                    snippet |-> sources[i].snippet]]]

\* handleQuerySuccess, main.js:436-437 and 465-488, with displayQueryResult
handleQuerySuccess(i) ==
    LET r == queryReqs[i]
        record == [question |-> r.question, answer |-> r.answer,
                   sources |-> r.sources, timestamp |-> nQueries + 1]
        qs == addQuery(queries, record)
    IN /\ r.stage = "response"
       /\ isQuerying' = FALSE
       /\ queries' = qs
       /\ nQueries' = nQueries + 1
       /\ IF typedDefined
          THEN /\ typing' = Append(typing, r.sources)
               /\ UNCHANGED querySources
          ELSE /\ querySources' = displaySources(r.sources)
               /\ UNCHANGED typing
       /\ stored' = saveStoredData(documents, qs)
       /\ queryReqs' = RemoveAt(queryReqs, i)
       /\ UNCHANGED <<documents, notification, documentsList, sourceFilter,
                      typedDefined, uploads, index, llmContext, progressVars>>

\* the catch of handleQuery without hideQueryLoading
handleQueryCatchLocked(i) ==
    /\ queryReqs[i].stage \in {"fetch", "response"}
    /\ notification' = showNotification("Query failed", 0, 0, NoName, "error")
    /\ queryReqs' = RemoveAt(queryReqs, i)
    /\ UNCHANGED <<documents, queries, isQuerying, stored, documentsList,
                   sourceFilter, querySources, typing, typedDefined, uploads,
                   index, llmContext, nQueries, progressVars>>

\* main.js:432-434 and 438-441: the fetch rejected, the response was not OK,
\* or its body did not parse
handleQueryCatch(i) ==
    /\ queryReqs[i].stage \in {"fetch", "response"}
    /\ notification' = showNotification("Query failed", 0, 0, NoName, "error")
    /\ isQuerying' = FALSE
    /\ queryReqs' = RemoveAt(queryReqs, i)
    /\ UNCHANGED <<documents, queries, stored, documentsList, sourceFilter,
                   querySources, typing, typedDefined, uploads, index,
                   llmContext, nQueries, progressVars>>

\* onComplete of a Typed instance, main.js:518-520
typedComplete(j) ==
    /\ querySources' = displaySources(typing[j])
    /\ typing' = RemoveAt(typing, j)
    /\ UNCHANGED <<documents, queries, isQuerying, stored, notification,
                   documentsList, sourceFilter, typedDefined, uploads,
                   queryReqs, index, llmContext, nQueries, progressVars>>

----------------------------------------------------------------------------
(* Specifications *)

\* the ingestion operations, for the selections the user can make
ingestSteps(selections, maxUploads) ==
    \/ \E sel \in selections :
          /\ Len(uploads) < maxUploads
          /\ processFiles(sel)
    \/ \E i \in 1..Len(uploads) : \E good \in SUBSET (1..Len(uploads[i].files)) :
          ingest(i, good)
    \/ \E i \in 1..Len(uploads) : handleUploadSuccess(i)
    \/ \E i \in 1..Len(uploads) : processFilesCatch(i)
    \/ \E i \in 1..Len(uploads) : uploadTimer(i)
    \/ \E name \in Range(documentsList) : \E confirmed \in BOOLEAN :
          deleteDocument(name, confirmed)

\* the query operations, for the values the user can enter
querySteps(maxQueries, inputs, kValues, thresholdValues) ==
    \/ \E input \in inputs, kValue \in kValues, thresholdValue \in thresholdValues,
          sourceValue \in sourceValues :
          /\ nQueries + Len(queryReqs) < maxQueries
          /\ handleQuery(input, kValue, thresholdValue, sourceValue)
    \/ \E i \in 1..Len(queryReqs) : query(i)
    \/ \E i \in 1..Len(queryReqs) : handleQuerySuccess(i)
    \/ \E i \in 1..Len(queryReqs) : handleQueryCatch(i)
    \/ \E j \in 1..Len(typing) : typedComplete(j)

\* the timers of showUploadProgress, for the values of Math.random() * 15
progressSteps(increments) ==
    \/ \E i \in 1..Len(uploads) : \E inc \in increments : intervalOfUpload(i, inc)
    \/ \E progress \in intervals : \E inc \in increments :
          intervalLeft(progress, inc)

\* what the user can type into #query-input, #results-k and #threshold
Inputs == {"", "  ", " q1 "}
KValues == {"", "0", "1"}
ThresholdValues == {"", "0", "0.8"}

\* Spec: one upload of one file at a time, interleaved with the queries
Next ==
    \/ ingestSteps(SeqsUpTo({fA, fB}, MaxSelection), MaxPending)
    \/ querySteps(MaxQueries, Inputs, KValues, ThresholdValues)
    \/ construct

Spec == Init /\ [][Next]_vars

\* SpecIngest: concurrent uploads of several files, with deletions and reloads
NextIngest ==
    \/ ingestSteps(SeqsUpTo({fA, fB, fD}, MaxFiles), MaxUploads)
    \/ construct

SpecIngest == Init /\ [][NextIngest]_vars

\* SpecFilter: one upload at a time, of files of every kind
NextFilter ==
    \/ ingestSteps(SeqsUpTo(AllFiles, MaxFiles), MaxPending)
    \/ construct

SpecFilter == Init /\ [][NextFilter]_vars

\* SpecHistory: a long run of queries, with reloads
NextHistory ==
    \/ querySteps(MaxHistory, {"", " q1 "}, {""}, {""})
    \/ construct

SpecHistory == Init /\ [][NextHistory]_vars

\* Math.random() * 15 in whole percent: the largest value, with which a timer
\* reaches ProgressStop in the fewest ticks (seven)
Increments == {14}

\* SpecProgress: uploads of one file, one at a time, with their progress timers
NextProgress ==
    \/ ingestSteps(SeqsUpTo({fA}, MaxSelection), MaxPending)
    \/ progressSteps(Increments)
    \/ construct

SpecProgress == Init /\ [][NextProgress]_vars

\* the code of handleQuery after its await, main.js:432-441: once the fetch has
\* settled with a response, the event loop runs it
afterFetch ==
    \E i \in 1..Len(queryReqs) :
       /\ queryReqs[i].stage = "response"
       /\ handleQuerySuccess(i) \/ handleQueryCatch(i)

\* SpecRetry: SpecHistory on a page whose event loop keeps running
SpecRetry == Init /\ [][NextHistory]_vars /\ WF_vars(afterFetch)

----------------------------------------------------------------------------
(* Claims *)

uniqueNames(docs) ==
    \A i, j \in 1..Len(docs) : docs[i].name = docs[j].name => i = j

allListed(files, docs) ==
    \A j \in 1..Len(files) : findDocument(docs, files[j].name)

\* C1: after every step the documents list, and the copy in the store, hold at
\* most one entry per file name; and when the callback of a successful upload
\* runs for files whose names are all listed already, the documents and so
\* getTotalChunks() stay what they were.
C1_UploadIdempotent ==
    [][/\ uniqueNames(documents')
       /\ uniqueNames(stored'.documents)
       /\ \A i \in 1..Len(uploads) :
             (uploadTimer(i) /\ allListed(uploads[i].files, documents))
                => /\ getTotalChunks(documents') = getTotalChunks(documents)
                   /\ documents' = documents]_vars

\* C1 witness: a.txt is listed with the one chunk it got from an upload of two
\* files, and the success message of a later upload of a.txt alone (two chunks
\* from one file) is showing: that upload added nothing.
C1_Witness ==
    /\ notification.message = "Successfully processed"
    /\ notification.chunks = 2
    /\ notification.files = 1
    /\ \E i \in 1..Len(documents) :
          documents[i].name = fA.name /\ documents[i].chunks = 1
    /\ getTotalChunks(documents) = 2

\* C2: a confirmed deleteDocument(name) leaves no chunk whose source is name
\* in the index.
C2_DeletionCascades ==
    [][\A name \in Range(documentsList) :
          deleteDocument(name, TRUE) => ~\E c \in index' : c.source = name]_vars

isSensitive(token) == isEmail(token) \/ isPhone(token)

\* C3: every text of the context handed to the LLM is the anonymized text of a
\* chunk of the index and holds no sensitive token, while the snippet of every
\* source of a response, and of every source card displayed, is the original
\* text of its chunk.
C3_AnonymizedOnlyForLLM ==
    /\ \A i \in 1..Len(llmContext) :
          /\ \E c \in index : /\ c.source = llmContext[i].source
                              /\ llmContext[i].text = anonymize(c.text)
          /\ \A t \in Range(llmContext[i].text) : ~isSensitive(t)
    /\ \A i \in 1..Len(queryReqs) : \A j \in 1..Len(queryReqs[i].sources) :
          \E c \in index : /\ c.id = queryReqs[i].sources[j].chunk_id
                           /\ c.text = queryReqs[i].sources[j].snippet
    /\ \A j \in 1..Len(querySources.cards) :
          \E c \in index : /\ c.source = querySources.cards[j].source
                           /\ c.text = querySources.cards[j].snippet

\* C3 witness: a displayed snippet shows a sensitive token whose placeholder
\* went to the LLM.
C3_Witness ==
    /\ \E j \in 1..Len(querySources.cards) :
          \E t \in Range(querySources.cards[j].snippet) : isSensitive(t)
    /\ \E i \in 1..Len(llmContext) :
          \E t \in Range(llmContext[i].text) : t \in {"[EMAIL]", "[PHONE]"}

\* C4: the sources of every response number at most k and each has a
\* similarity of at least score_threshold, for the k and score_threshold of the
\* request and for the ones the user entered.
C4_AtMostKAboveThreshold ==
    \A i \in 1..Len(queryReqs) :
       LET r == queryReqs[i]
           k == parseInt(r.entered.k)
           th == parseFloat(r.entered.threshold)
       IN r.stage = "response" =>
            /\ Len(r.sources) <= r.body.k
            /\ (~k.nan /\ k.val > 0) => Len(r.sources) <= k.val
            /\ \A j \in 1..Len(r.sources) :
                  /\ r.sources[j].similarity >= r.body.score_threshold
                  /\ ~th.nan => r.sources[j].similarity >= th.val

\* C4 witness: k chunks pass the filter, some of them clear the threshold and
\* only those are returned.
C4_Witness ==
    \E i \in 1..Len(queryReqs) :
       LET r == queryReqs[i] IN
       /\ r.stage = "response"
       /\ Len(r.sources) >= 1
       /\ Len(r.sources) < r.body.k
       /\ Cardinality({c \in index : matches(r.body.filter, c)}) >= r.body.k

\* C5: the body of every request carries the k the user entered, or 3 when none
\* was entered, and the score_threshold the user entered, or 0.6 when none was.
C5_BodyCarriesEntered ==
    \A i \in 1..Len(queryReqs) :
       LET r == queryReqs[i] IN
       /\ r.body.k = (IF r.entered.k # "" THEN parseInt(r.entered.k).val
                      ELSE DefaultK)
       /\ r.body.score_threshold =
             (IF r.entered.threshold # "" THEN parseFloat(r.entered.threshold).val
              ELSE DefaultThreshold)

\* C6: a handleQuery with an empty or whitespace-only question sends no
\* request and leaves isQuerying, queries, documents and the store as they are.
C6_MissingQuestionRejected ==
    [][\/ UNCHANGED <<queryReqs, isQuerying, queries, documents, stored>>
       \/ ~\E input \in {"", " ", "  "}, kValue \in KValues,
              thresholdValue \in ThresholdValues, sourceValue \in sourceValues :
              handleQuery(input, kValue, thresholdValue, sourceValue)]_vars

\* C6 witness: the rejection is showing and nothing is in flight.
C6_Witness ==
    /\ notification.message = "Please enter a question."
    /\ queryReqs = <<>>
    /\ ~isQuerying
    /\ documents # <<>>

isSupportedMedia(file) == file.type \in {"text/plain", "application/pdf"}

\* C7 as stated: every file of every request has media type text/plain or
\* application/pdf.
C7_OnlySupportedMedia ==
    \A i \in 1..Len(uploads) : \A j \in 1..Len(uploads[i].files) :
       isSupportedMedia(uploads[i].files[j])

isAcceptable(file) == isSupportedMedia(file) \/ file.name[2] = ".txt"

\* C7 amended: every file of every request has media type text/plain or
\* application/pdf or a name ending in '.txt', and a selection without such a
\* file sends no request.
C7_OnlyAcceptedFiles ==
    [][/\ \A i \in 1..Len(uploads') : \A j \in 1..Len(uploads'[i].files) :
             isAcceptable(uploads'[i].files[j])
       /\ \A sel \in SeqsUpTo(AllFiles, MaxFiles) :
             (processFiles(sel) /\ \A j \in 1..Len(sel) : ~isAcceptable(sel[j]))
                => UNCHANGED <<uploads, index, documents, stored>>]_vars

\* C7 witness: a request carries c.txt, whose media type is unknown, and no
\* file that is not acceptable.
C7_Witness ==
    \E i \in 1..Len(uploads) :
       /\ \E j \in 1..Len(uploads[i].files) :
             /\ ~isSupportedMedia(uploads[i].files[j])
             /\ uploads[i].files[j].name[2] = ".txt"
       /\ Len(uploads[i].files) = 1

distinctNames(files) ==
    \A j, k \in 1..Len(files) : files[j].name = files[k].name => j = k

\* C8: when an ingestion of several documents ends with some of them ingested
\* and the others failed, the ingested ones are in the documents list and the
\* failed ones have not been added to it.
C8_OutcomeTellsApart ==
    [][\A i \in 1..Len(uploads) :
          LET u == uploads[i] IN
          (/\ u.stage \in {"response", "timer"}
           /\ distinctNames(u.files)
           /\ u.good # {}
           /\ u.good # 1..Len(u.files)
           /\ uploadTimer(i) \/ processFilesCatch(i))
             => \A j \in 1..Len(u.files) :
                   IF j \in u.good
                   THEN findDocument(documents', u.files[j].name)
                   ELSE findDocument(documents', u.files[j].name)
                           => findDocument(documents, u.files[j].name)]_vars

\* C9: a response without sources is handled as a success: its record, with
\* its answer and sources = [], becomes the head of the history, no
\* notification is raised, isQuerying is false again and, where the sources
\* are rendered at once, the panel shows that none were found.
C9_EmptySourcesIsSuccess ==
    [][\A i \in 1..Len(queryReqs) :
          (handleQuerySuccess(i) /\ queryReqs[i].sources = <<>>)
             => /\ Len(queries') >= 1
                /\ queries'[1].question = queryReqs[i].question
                /\ queries'[1].answer = queryReqs[i].answer
                /\ queries'[1].sources = <<>>
                /\ queries'[1].timestamp = nQueries'
                /\ stored'.queries = queries'
                /\ notification' = notification
                /\ ~isQuerying'
                /\ ~typedDefined =>
                      querySources' = [shown |-> TRUE, cards |-> <<>>]]_vars

\* C9 witness: the index holds chunks, the last query found none of them, it
\* heads the history, and no error is showing.
C9_Witness ==
    /\ index # {}
    /\ Len(queries) >= 1
    /\ queries[1].sources = <<>>
    /\ queries[1].timestamp = nQueries
    /\ ~isQuerying
    /\ notification.type # "error"
    /\ querySources = [shown |-> TRUE, cards |-> <<>>]

\* the min(n, 10) queries completed last, newest first, out of n
isLatestOf(qs, n) ==
    /\ Len(qs) = (IF n < 10 THEN n ELSE 10)
    /\ \A j \in 1..Len(qs) : qs[j].timestamp = n - j + 1

\* C10: the history holds at most 10 records, and after n successful queries
\* exactly the min(n, 10) completed last, newest first; so do the copy in the
\* store and the history a new instance loads from it.
C10_HistoryBounded ==
    /\ Len(queries) <= 10
    /\ isLatestOf(queries, nQueries)
    /\ stored.present =>
          /\ Len(stored.queries) <= 10
          /\ isLatestOf(stored.queries, nQueries)
          /\ isLatestOf(loadStoredData(stored)[2], nQueries)

\* C10 witness: the eleventh query has pushed the first out of the history,
\* and the page was loaded again after it (nothing is displayed).
C10_Witness ==
    /\ nQueries = 11
    /\ Len(queries) = 10
    /\ queries[10].timestamp = 2
    /\ ~typedDefined
    /\ ~querySources.shown

\* C11: the catch of a failed /ingest request and the catch of a failed /query
\* request leave documents, queries and the store exactly as they were: no
\* document and no history entry is added for the request.
C11_FailureChangesNothing ==
    [][\/ UNCHANGED <<documents, queries, stored>>
       \/ /\ ~\E i \in 1..Len(uploads) : processFilesCatch(i)
          /\ ~\E i \in 1..Len(queryReqs) : handleQueryCatch(i)]_vars

\* C11 witness: an upload has failed after a document was listed and a query
\* was recorded, the server had stored the chunks of the failed upload, and the
\* client holds what it held before: the store is its copy and the file of the
\* failed upload is not listed.
C11_Witness ==
    /\ notification.message = "Upload failed"
    /\ uploads = <<>>
    /\ Len(documents) = 1
    /\ Len(queries) = 1
    /\ stored = toJSON(documents, queries)
    /\ \E c \in index : ~findDocument(documents, c.source)

\* C12: after every step at most one /query request is outstanding, and one is
\* outstanding only while isQuerying is true; and a handleQuery triggered while
\* isQuerying is true changes nothing at all, whatever was typed.
C12_OneQueryOutstanding ==
    [][/\ Len(queryReqs') <= 1
       /\ queryReqs' # <<>> => isQuerying'
       /\ \/ ~isQuerying
          \/ UNCHANGED vars
          \/ ~\E input \in Inputs, kValue \in KValues,
                 thresholdValue \in ThresholdValues, sourceValue \in sourceValues :
                 handleQuery(input, kValue, thresholdValue, sourceValue)]_vars

\* C12 witness: a query has completed, the next one is outstanding and the
\* guard is locked (a trigger in this state is a step that changes nothing).
C12_Witness ==
    /\ isQuerying
    /\ Len(queryReqs) = 1
    /\ queryReqs[1].stage = "response"
    /\ nQueries >= 2

\* a fetch of /query has settled with a response (a rejected fetch is handled
\* in the step in which it settles)
fetchSettled == \E i \in 1..Len(queryReqs) : queryReqs[i].stage = "response"

\* C13: the guard is locked only while a request is outstanding, and once the
\* fetch of a query has settled isQuerying is eventually false again.
C13_QueryRetryable ==
    /\ [](isQuerying => queryReqs # <<>>)
    /\ fetchSettled ~> ~isQuerying

\* C13 witness: a query has failed, its error is showing, and the next
\* handleQuery has sent a new request.
C13_Witness ==
    /\ notification.message = "Query failed"
    /\ isQuerying
    /\ Len(queryReqs) = 1
    /\ queryReqs[1].stage = "fetch"
    /\ nQueries >= 1

\* C14: a timer of showUploadProgress writes to the progress bar only while
\* its upload is neither completed nor failed: a tick after handleUploadSuccess
\* or after the end of the processFiles call leaves the panel as it is, and a
\* bar that handleUploadSuccess has set to 100 stays at 100 for as long as the
\* panel is shown.
C14_TimerStopsAtCompletion ==
    [][/\ \A i \in 1..Len(uploads) : \A inc \in Increments :
             (intervalOfUpload(i, inc) /\ uploads[i].stage = "timer")
                => uploadProgress' = uploadProgress
       /\ \A progress \in intervals : \A inc \in Increments :
             intervalLeft(progress, inc) => uploadProgress' = uploadProgress
       /\ (/\ \E i \in 1..Len(uploads) : uploads[i].stage = "timer"
           /\ uploadProgress.percent = 100
           /\ ~uploadProgress'.hidden)
             => uploadProgress'.percent = 100]_vars

\* C15: between handlers the item stored under 'rag-system-data', once
\* written, is the JSON of the current documents and queries, and what
\* loadStoredData of a new instance restores from the store is the current
\* documents and queries.
C15_StoreMatchesState ==
    /\ stored.present => stored = toJSON(documents, queries)
    /\ loadStoredData(stored) = <<documents, queries>>

\* C15 witness: after two uploads, a query and a confirmed deletion the store
\* holds the one document left and the query.
C15_Witness ==
    /\ notification.message = "Document deleted"
    /\ Len(documents) = 1
    /\ Len(queries) = 1
    /\ stored.present
    /\ stored.documents = documents
    /\ stored.queries = queries
    /\ uploads = <<>>
    /\ queryReqs = <<>>

\* C16: between handlers the options of #source-filter after 'All Sources'
\* are the names of the documents, one option per document in their order.
C16_FilterListsDocuments == sourceFilter = docNames(documents)

noneListed(files, docs) ==
    \A j \in 1..Len(files) : ~findDocument(docs, files[j].name)

\* C17: when the callback of a successful upload runs for files of distinct
\* names none of which is listed, getTotalChunks() grows by inserted_chunks:
\* the chunk counts of the documents it adds sum to inserted_chunks.
C17_ChunksSumToInserted ==
    [][\A i \in 1..Len(uploads) :
          (/\ uploadTimer(i)
           /\ distinctNames(uploads[i].files)
           /\ noneListed(uploads[i].files, documents))
             => getTotalChunks(documents')
                   = getTotalChunks(documents) + uploads[i].inserted]_vars

====
